---- MODULE Spec2Model ----
(***************************************************************************)
(* go-openbmclapi-reborn: a mirror-cluster node.                           *)
(*                                                                         *)
(* The model covers the content store (three implementations of the        *)
(* Storage interface) and the reconciliation engine (two versions of the   *)
(* sync package).  Strings are sequences of one-character strings, so that *)
(* slicing (hash[:2], relPath[3:]) is computed as the code computes it.    *)
(***************************************************************************)
EXTENDS Integers, Sequences, FiniteSets, TLC

VARIABLES
    backend,      \* which Storage implementation the node runs
    files,        \* the store's directory tree: relative path -> content
    op,           \* the last finished store operation and its result
    gc,           \* the GC sweep in progress (or idle / finished)
    impl,         \* which version of package sync the node runs
    maxConcurrency, \* config.Sync.MaxConcurrency
    served,       \* the manifest the authority serves
    proc,         \* the process: running, exited (os.Exit) or panicked
    errorCount,   \* SyncManager.errorMgr.errorCount
    sf,           \* SyncManager.SyncFiles: position, pass index, result
    listed,       \* the file list of the current pass
    missing,      \* the missing files of the current pass
    dl,           \* the download pass: position, channels, wait group
    tasks,        \* the download goroutines of the current pass
    hist,         \* history: what the current pass of SyncFiles has done so far
    faults,       \* Cluster.errorMgr.errorCount
    srv,          \* which version of package server the node runs
    secret,       \* config.Cluster.Secret
    reply,        \* the last download request handled and its response
    erm,          \* an ErrorRetryManager: which version, and who holds its mutex
    callers,      \* the goroutines calling that ErrorRetryManager
    tm,           \* the TokenManager: the token held, the refreshes scheduled
    getters,      \* the goroutines calling TokenManager.GetToken
    dav,          \* WebDAVStorage: the client call in progress and its attempts
    al            \* AListStorage: its token, and Cluster.Init running on it

storeVars == <<backend, files, op, gc>>

syncVars == <<backend, files, impl, maxConcurrency, served, proc, errorCount, sf, listed,
              missing, dl, tasks, hist, faults>>

serverVars == <<backend, files, proc, faults, srv, secret, reply>>

governorVars == <<proc, errorCount, erm, callers>>

\* what the download server alone works on, and what the model of one
\* ErrorRetryManager under concurrent callers alone works on
serverOnly == <<srv, secret, reply>>

governorOnly == <<erm, callers>>

tokenVars == <<tm, getters>>

\* what the calls of the remote backends alone work on
remoteOnly == <<dav, al>>

\* what the TokenManager leaves alone
besideToken == <<backend, files, op, gc, impl, maxConcurrency, served, proc, errorCount, sf,
                 listed, missing, dl, tasks, hist, faults, serverOnly, governorOnly,
                 remoteOnly>>

\* what the store operations called directly leave alone, and what
\* SyncFiles leaves alone
syncOnly == <<impl, maxConcurrency, served, proc, errorCount, sf, listed, missing, dl,
              tasks, hist, faults, serverOnly, governorOnly, tokenVars, remoteOnly>>

storeOnly == <<op, gc, serverOnly, governorOnly, tokenVars, remoteOnly>>

vars == <<backend, files, op, gc, impl, maxConcurrency, served, proc, errorCount, sf,
          listed, missing, dl, tasks, hist, faults, srv, secret, reply, erm, callers, tm,
          getters, dav, al>>

-----------------------------------------------------------------------------
(* Bounds of the model *)

NumHashes == 3      \* hashes the authority can name
MaxData == 1        \* distinct file contents
MaxFiles == 2       \* entries of the manifest the authority serves
MaxLimit == 1       \* largest configured max_concurrency
MaxCallers == 3     \* goroutines calling one ErrorRetryManager at a time
MaxCount == 7       \* largest error count followed (stale increments can raise it on and on)
MaxGetters == 2     \* goroutines calling GetToken at a time
MaxTimers == 2      \* refreshes scheduled and not yet fired

(* Program constants *)

ShardLen == 2       \* hash[:2]
DefaultMaxConcurrent == 64  \* used when max_concurrency <= 0
MaxPasses == 5      \* SyncFiles: for i := 0; i < 5; i++
MaxFileRetries == 3 \* downloadFileWithRetry: maxRetries := 3
ErrorThreshold == 5 \* NewErrorRetryManager(5, logger)
MinRefresh == 600   \* scheduleRefresh: if refreshTime < 600
Second == 100       \* time.Second, in ticks of a Duration (in place of 10^9)
DurationBits == 20  \* width of a Duration (in place of 64)
LockRetries == 5    \* retryOnLock: maxRetries := 5

-----------------------------------------------------------------------------
(* Strings *)

Separator == "/"

Digits == <<"0", "1", "2", "3", "4", "5", "6", "7", "8", "9">>

\* The i-th hash: three characters, the first two being its shard.
\* Hashes 1, 3, ... share the shard "a1"; hashes 2, 4, ... the shard "a0".
HashOf(i) == <<"a", Digits[(i % 2) + 1], Digits[i + 1]>>

Hashes == {HashOf(i) : i \in 1..NumHashes}

Partial == 0                    \* content of a file whose copy broke off
Data == 1..MaxData              \* complete contents

\* s[from:] of Go, from counted from 0
SliceFrom(s, from) == SubSeq(s, from + 1, Len(s))

\* s[:to] of Go
SliceTo(s, to) == SubSeq(s, 1, to)

\* strings.ReplaceAll(s, c, "")
RECURSIVE RemoveChar(_, _)
RemoveChar(s, c) ==
    IF s = <<>> THEN <<>>
    ELSE IF Head(s) = c THEN RemoveChar(Tail(s), c)
         ELSE <<Head(s)>> \o RemoveChar(Tail(s), c)

\* strings.Split(s, c)[0]
RECURSIVE FirstPart(_, _)
FirstPart(s, c) ==
    IF s = <<>> \/ Head(s) = c THEN <<>>
    ELSE <<Head(s)>> \o FirstPart(Tail(s), c)

\* len(strings.Split(s, c))
RECURSIVE NumParts(_, _)
NumParts(s, c) ==
    IF s = <<>> THEN 1
    ELSE (IF Head(s) = c THEN 1 ELSE 0) + NumParts(Tail(s), c)

\* filepath.Join(fs.path, hash[:2], hash), relative to the storage root
PathOf(hash) == SliceTo(hash, ShardLen) \o <<Separator>> \o hash

\* A set as a sequence without repetition, in some fixed order.
RECURSIVE SetToSeq(_)
SetToSeq(S) ==
    IF S = {} THEN <<>>
    ELSE LET x == CHOOSE y \in S : TRUE IN <<x>> \o SetToSeq(S \ {x})

Range(s) == {s[i] : i \in 1..Len(s)}

\* The objects that are really stored: hash is stored when a file is at
\* shard(hash)/hash.
StoredIn(fsys) == {h \in Hashes : PathOf(h) \in DOMAIN fsys}

StoredHashes == StoredIn(files)

\* The file system with path p holding d, and with path p removed.
WithFile(fsys, p, d) == [q \in (DOMAIN fsys) \cup {p} |-> IF q = p THEN d ELSE fsys[q]]

WithoutFile(fsys, p) == [q \in (DOMAIN fsys) \ {p} |-> fsys[q]]

-----------------------------------------------------------------------------
(* The Storage implementations *)

Backends == {"FileStorage", "FileStorageV2", "WebDAVStorage"}

\* Is the backend a directory on the local disk?
IsLocal(b) == b \in {"FileStorage", "FileStorageV2"}

\* Exists: os.Stat / client.Stat of shard(hash)/hash
Exists(fsys, hash) == PathOf(hash) \in DOMAIN fsys

\* Put: MkdirAll, then os.Create and io.Copy (local), or io.ReadAll and
\* client.Write (WebDAV).  outcome is what the environment lets happen:
\*   "ok"         the whole stream is stored
\*   "createErr"  MkdirAll / os.Create / io.ReadAll / client.Write fails
\*   "copyErr"    os.Create succeeded (the file is created or truncated),
\*                then io.Copy fails part-way (local backends only)
PutOutcomes(b) == IF IsLocal(b) THEN {"ok", "createErr", "copyErr"} ELSE {"ok", "createErr"}

\* a Put that empties the store before it writes
PutAlone(b, fsys, hash, d, outcome) ==
    IF outcome = "ok" THEN WithFile(<<>>, PathOf(hash), d) ELSE fsys

\* a Put that creates the file and copies nothing into it
PutEmpty(b, fsys, hash, d, outcome) ==
    IF outcome = "createErr" THEN fsys ELSE WithFile(fsys, PathOf(hash), Partial)

Put(b, fsys, hash, d, outcome) ==
    CASE outcome = "ok" -> WithFile(fsys, PathOf(hash), d)
      [] outcome = "copyErr" -> WithFile(fsys, PathOf(hash), Partial)
      [] OTHER -> fsys

PutErr(outcome) == outcome # "ok"

\* Delete: os.Remove fails on a path that does not exist; the WebDAV Delete
\* turns "404 / not found" into success.  envFail is a failure the
\* environment injects (permissions, a lock that never goes away).
DeleteErr(b, fsys, hash, envFail) ==
    IF PathOf(hash) \in DOMAIN fsys THEN envFail
    ELSE IsLocal(b)

Delete(b, fsys, hash, envFail) ==
    IF DeleteErr(b, fsys, hash, envFail) THEN fsys
    ELSE WithoutFile(fsys, PathOf(hash))

\* FileStorage.ListFiles (second version): for a walked file at relPath with
\* relPath[2] the separator, hash := relPath[0:2] + relPath[3:]
FileStorage_ListedOk(relPath) == Len(relPath) >= 3 /\ relPath[3] = Separator

FileStorage_ListedHash(relPath) == SliceTo(relPath, 2) \o SliceFrom(relPath, 3)

\* WebDAVStorage.walkDir: parts := Split(relPath, "/"); when len(parts) >= 2
\* and len(parts[0]) == 2, hash := ReplaceAll(relPath, sep, "")[2:]
WebDAV_ListedOk(relPath) ==
    /\ Len(relPath) >= 3
    /\ NumParts(relPath, Separator) >= 2
    /\ Len(FirstPart(relPath, Separator)) = 2

WebDAV_ListedHash(relPath) == SliceFrom(RemoveChar(relPath, Separator), 2)

\* ListFiles: the hashes of the FileInfo records the walk produces
ListFiles(b, fsys) ==
    IF b = "WebDAVStorage"
    THEN {WebDAV_ListedHash(p) : p \in {q \in DOMAIN fsys : WebDAV_ListedOk(q)}}
    ELSE {FileStorage_ListedHash(p) : p \in {q \in DOMAIN fsys : FileStorage_ListedOk(q)}}

\* The test GetMissingFiles applies to one candidate: FileStorage (first
\* version) asks Exists; the others look the hash up in the map built from
\* ListFiles.
IsPresent(b, fsys, hash) ==
    IF b = "FileStorage" THEN Exists(fsys, hash)
    ELSE hash \in ListFiles(b, fsys)

\* GetMissingFiles: the candidates, in order, that are not present
RECURSIVE GetMissingFiles(_, _, _)
GetMissingFiles(b, fsys, cands) ==
    IF cands = <<>> THEN <<>>
    ELSE (IF IsPresent(b, fsys, Head(cands)) THEN <<>> ELSE <<Head(cands)>>)
         \o GetMissingFiles(b, fsys, Tail(cands))

\* GC, first step: what the sweep will visit.  FileStorage (first version)
\* walks the tree and visits relative paths; the others visit the hashes
\* ListFiles reports.
GCListing(b, fsys) ==
    IF b = "FileStorage" THEN DOMAIN fsys ELSE ListFiles(b, fsys)

\* GC: is the visited item absent from the map of files to keep?  The map's
\* keys are the hashes of the files to keep; FileStorage (first version)
\* looks the relative path up in it.
GCInvalid(b, item, keep) == item \notin keep

\* GC: deleting one invalid item.  FileStorage (first version) removes the
\* walked path itself; the others call Delete(hash).
GCDeleteErr(b, fsys, item, envFail) ==
    IF b = "FileStorage" THEN envFail ELSE DeleteErr(b, fsys, item, envFail)

GCDelete(b, fsys, item, envFail) ==
    IF b = "FileStorage"
    THEN (IF envFail THEN fsys ELSE WithoutFile(fsys, item))
    ELSE Delete(b, fsys, item, envFail)

-----------------------------------------------------------------------------------------------------------------------------------------------------
(* The store driven directly: Put, Delete, GetMissingFiles and GC called    *)
(* one after the other on one of the implementations.                       *)

NoOp == [name |-> "none"]

GCIdle == [pc |-> "idle", todo |-> {}, keep |-> {}, prior |-> {}, failed |-> FALSE,
           before |-> <<>>, envFailed |-> {}]

\* The candidate lists handed to GetMissingFiles and GC: every set of hashes,
\* as a list.
CandidateLists == {SetToSeq(S) : S \in SUBSET Hashes}

\* Put of every hash of the list, each one succeeding
RECURSIVE PutAll(_, _, _, _)
PutAll(b, fsys, hashes, d) ==
    IF hashes = <<>> THEN fsys
    ELSE PutAll(b, Put(b, fsys, Head(hashes), d, "ok"), Tail(hashes), d)

\* The reconciliation engine before SyncFiles is called
NoTask == [pc |-> "none", attempt |-> 0, holds |-> FALSE, res |-> "none", seen |-> 0]

NoPass == [pc |-> "idle", k |-> 1, sem |-> 0, semClosed |-> FALSE, errChan |-> 0,
           errClosed |-> FALSE, wg |-> 0, downloadedCount |-> 0, failedCount |-> 0]

NoHist == [got204 |-> FALSE, getMissing |-> FALSE, requested |-> FALSE, bare |-> FALSE]

SyncIdle ==
    /\ impl = "part_002"
    /\ maxConcurrency = 0
    /\ served = <<>>
    /\ proc = "running"
    /\ errorCount = 0
    /\ sf = [pc |-> "idle", i |-> 0, ret |-> "none"]
    /\ listed = <<>>
    /\ missing = <<>>
    /\ dl = NoPass
    /\ tasks = [t \in 1..MaxFiles |-> NoTask]
    /\ hist = NoHist

\* no download request handled yet
NoReply == [path |-> <<>>, sign |-> <<>>, io |-> "ok", hash |-> <<>>, verified |-> "none",
            gets |-> 0, status |-> 0, body |-> <<>>, location |-> <<>>]

ServerIdle ==
    /\ faults = 0
    /\ srv = "server.go"
    /\ secret = <<>>
    /\ reply = NoReply

\* a goroutine that is not in a call of the ErrorRetryManager
NoCall == [pc |-> "idle", seen |-> 0]

\* a goroutine that is not in GetToken and has not called it
NoGet == [pc |-> "idle", reqs |-> 0, challenge |-> 0, answer |-> 0, err |-> FALSE,
          ret |-> ""]

\* NewTokenManager: no token; no refresh is scheduled, none has fired yet
\* (last: how the last refresh ended and, when it succeeded, the token and
\* the ttl of its response)
NoToken == [token |-> "", timers |-> <<>>,
            last |-> [res |-> "none", token |-> "", ttl |-> 0]]

\* no client call of WebDAVStorage made yet
NoDav == [call |-> "none", pc |-> "idle", i |-> 0, attempts |-> 0, last |-> "none",
          ret |-> "none"]

\* NewAListStorage: token is cfg.Token; Init not called yet
NoInit == [cfg |-> "", token |-> "", pc |-> "idle", sent |-> <<>>, login |-> "none",
           err |-> FALSE]

GovernorIdle ==
    /\ erm = [file |-> "cluster.go", mu |-> 0]
    /\ callers = [c \in 1..MaxCallers |-> NoCall]

TokenIdle ==
    /\ tm = NoToken
    /\ getters = [g \in 1..MaxGetters |-> NoGet]

InitStore ==
    /\ backend \in Backends
    /\ files = <<>>
    /\ op = NoOp
    /\ gc = GCIdle
    /\ SyncIdle
    /\ ServerIdle
    /\ GovernorIdle
    /\ TokenIdle
    /\ dav = NoDav
    /\ al = NoInit

\* storage.Put(hash, data)
StorePut(hash, d, outcome) ==
    /\ gc.pc # "sweep"
    /\ outcome \in PutOutcomes(backend)
    /\ files' = Put(backend, files, hash, d, outcome)
    /\ op' = [name |-> "Put", hash |-> hash, data |-> d, err |-> PutErr(outcome)]
    /\ gc' = GCIdle
    /\ UNCHANGED <<backend, syncOnly>>

\* storage.Delete(hash)
StoreDelete(hash, envFail) ==
    /\ gc.pc # "sweep"
    /\ files' = Delete(backend, files, hash, envFail)
    /\ op' = [name |-> "Delete", hash |-> hash,
              err |-> DeleteErr(backend, files, hash, envFail)]
    /\ gc' = GCIdle
    /\ UNCHANGED <<backend, syncOnly>>

\* storage.GetMissingFiles(files).  op also records what a second
\* storage.GetMissingFiles(files) answers once Put has succeeded for every
\* file the first one reported.
StoreGetMissingFiles(cands) ==
    /\ gc.pc # "sweep"
    /\ LET result == GetMissingFiles(backend, files, cands) IN
        op' = [name |-> "GetMissingFiles", cands |-> cands, missing |-> result,
               afterPuts |-> GetMissingFiles(backend,
                                 PutAll(backend, files, result, 1), cands)]
    /\ gc' = GCIdle
    /\ UNCHANGED <<backend, files, syncOnly>>

\* storage.GC(files): the listing and the map of the hashes to keep
GCStart(retain) ==
    /\ gc.pc # "sweep"
    /\ gc' = [pc |-> "sweep", todo |-> GCListing(backend, files), keep |-> Range(retain),
              prior |-> StoredHashes, failed |-> FALSE, before |-> files,
              envFailed |-> {}]
    /\ op' = NoOp
    /\ UNCHANGED <<backend, files, syncOnly>>

\* storage.GC, one iteration of the sweep
GCStep(item, envFail) ==
    /\ gc.pc = "sweep"
    /\ item \in gc.todo
    /\ IF GCInvalid(backend, item, gc.keep)
       THEN /\ files' = GCDelete(backend, files, item, envFail)
            /\ gc' = [gc EXCEPT !.todo = @ \ {item},
                                !.failed = @ \/ GCDeleteErr(backend, files, item, envFail),
                                !.envFailed = IF envFail THEN @ \cup {item} ELSE @]
       ELSE /\ files' = files
            /\ gc' = [gc EXCEPT !.todo = @ \ {item}]
    /\ UNCHANGED <<backend, op, syncOnly>>

\* storage.GC returns nil
GCEnd ==
    /\ gc.pc = "sweep"
    /\ gc.todo = {}
    /\ gc' = [gc EXCEPT !.pc = "done"]
    /\ op' = [name |-> "GC", err |-> FALSE]
    /\ UNCHANGED <<backend, files, syncOnly>>

NextStore ==
    \/ \E h \in Hashes, d \in Data, o \in {"ok", "createErr", "copyErr"} : StorePut(h, d, o)
    \/ \E h \in Hashes, f \in BOOLEAN : StoreDelete(h, f)
    \/ \E c \in CandidateLists : StoreGetMissingFiles(c)
    \/ \E r \in CandidateLists : GCStart(r)
    \/ \E x \in gc.todo, f \in BOOLEAN : GCStep(x, f)
    \/ GCEnd

SpecStore == InitStore /\ [][NextStore]_vars

-----------------------------------------------------------------------------------------------------------------------------------------------------
(* The reconciliation engine: SyncManager.SyncFiles and the download pass.  *)
(* "part_002" is the version of package sync that retries the whole pass,   *)
(* "part_003" the version that retries each file.                          *)

Impls == {"part_002", "part_003"}

\* the manifests the authority may serve: the first n hashes
Manifests == {[j \in 1..n |-> HashOf(j)] : n \in 0..MaxFiles}

\* maxConcurrent of syncFiles / downloadMissingFiles
maxConcurrent == IF maxConcurrency <= 0 THEN DefaultMaxConcurrent ELSE maxConcurrency

\* ErrorRetryManager.RecordError: the count after the call, and whether the
\* call ends the process (logger.Fatal)
RecordError(cnt) == cnt + 1

IsFatal(cnt) == cnt > ErrorThreshold

\* ErrorRetryManager.ResetErrors
ResetErrors(cnt) == IF cnt > 0 THEN 0 ELSE cnt

\* a semaphore without capacity limit
SemAlwaysHasRoom == TRUE

\* semaphore <- struct{}{} can proceed: the channel has room
SemHasRoom == dl.sem < maxConcurrent

\* for i := 0; i < 5; i++: is there another pass after pass i?
HasNextPass(i) == i + 1 < MaxPasses

\* for i := 0; i < maxRetries; i++: is there another attempt after `made'
\* attempts?
HasNextAttempt(made) == made < MaxFileRetries

\* The stores a SyncManager is run with.  part_003 makes its one pass over
\* the store as it was at start, empty, where the two local stores answer
\* alike; it is run with the first.
SyncBackends(i) == IF i = "part_003" THEN Backends \ {"FileStorageV2"} ELSE Backends

InitSync ==
    /\ impl \in Impls
    /\ backend \in SyncBackends(impl)
    /\ files = <<>>
    /\ op = NoOp
    /\ gc = GCIdle
    /\ maxConcurrency \in 0..MaxLimit
    /\ served \in Manifests
    /\ proc = "running"
    /\ errorCount = 0
    /\ sf = [pc |-> IF impl = "part_003" THEN "check" ELSE "getFileList", i |-> 0,
             ret |-> "none"]
    /\ listed = <<>>
    /\ missing = <<>>
    /\ dl = NoPass
    /\ tasks = [t \in 1..MaxFiles |-> NoTask]
    /\ hist = NoHist
    /\ ServerIdle
    /\ GovernorIdle
    /\ TokenIdle
    /\ dav = NoDav
    /\ al = NoInit

\* SyncFiles (part_002): `continue' of the retry loop; the loop ends after
\* the fifth pass
Continue(frame) ==
    IF HasNextPass(frame.i)
    THEN [frame EXCEPT !.pc = "getFileList", !.i = @ + 1]
    ELSE [frame EXCEPT !.pc = "giveUp", !.i = @ + 1]

\* SyncFiles returns
Return(frame, result) == [frame EXCEPT !.pc = "returned", !.ret = result]

\* SyncFiles without the test for an empty list
GoOnWithEmptyList(frame, n) == [frame EXCEPT !.pc = "getMissing"]

\* SyncFiles: if len(files) == 0 { ...; return nil }, else go on to
\* GetMissingFiles
AfterGetFileList(frame, n) ==
    IF n = 0 THEN Return(frame, "nil") ELSE [frame EXCEPT !.pc = "getMissing"]

\* What SyncFiles does when a stage of the pass fails
StageFailed(frame) ==
    IF impl = "part_002" THEN Continue(frame) ELSE Return(frame, "err")

\* Cluster.SyncFiles, around the call of syncMgr.SyncFiles: when that call
\* has returned, its error is recorded in, and its success resets, the
\* Cluster's own ErrorRetryManager, whose count is cnt.  main calls
\* Cluster.SyncFiles once, with a count of 0: this RecordError does not reach
\* the threshold.
Cluster_SyncFiles(cnt, frame) ==
    IF frame.pc # "returned" THEN cnt
    ELSE IF frame.ret = "err" THEN RecordError(cnt)
    ELSE ResetErrors(cnt)

\* SyncFiles (part_003): sm.storage.Check()
S_Check(ready) ==
    /\ proc = "running"
    /\ sf.pc = "check"
    /\ sf' = IF ready THEN [sf EXCEPT !.pc = "getFileList"] ELSE Return(sf, "err")
    /\ faults' = Cluster_SyncFiles(faults, sf')
    /\ UNCHANGED <<backend, files, impl, maxConcurrency, served, proc, errorCount, listed,
                   missing, dl, tasks, hist, storeOnly>>

\* a doRequest that sends its request whatever GetToken returned
SentWithoutToken(outcome) == TRUE

\* doRequest: sm.client.Do(req) is reached unless sm.tokenMgr.GetToken()
\* returned an error ("noToken")
RequestSent(outcome) == outcome # "noToken"

\* SyncFiles: sm.GetFileList() and the test for an empty list.  resp is how
\* the request ends: "noToken" (GetToken returned an error), "err" (network
\* error, status >= 400, bad payload), "204", or "200" with the manifest.
S_GetFileList(resp) ==
    /\ proc = "running"
    /\ sf.pc = "getFileList"
    /\ CASE resp \in {"noToken", "err"} ->
              /\ errorCount' = RecordError(errorCount)
              /\ IF IsFatal(errorCount')
                 THEN proc' = "exited" /\ sf' = sf
                 ELSE proc' = proc /\ sf' = StageFailed(sf)
              /\ listed' = <<>>
              /\ hist' = [NoHist EXCEPT !.bare = resp = "noToken" /\ RequestSent(resp)]
         [] resp = "204" ->
              /\ listed' = <<>>
              /\ errorCount' = ResetErrors(errorCount)
              /\ sf' = AfterGetFileList(sf, 0)
              /\ hist' = [NoHist EXCEPT !.got204 = TRUE]
              /\ proc' = proc
         [] OTHER ->
              /\ listed' = served
              /\ errorCount' = ResetErrors(errorCount)
              /\ sf' = AfterGetFileList(sf, Len(served))
              /\ hist' = NoHist
              /\ proc' = proc
    /\ faults' = Cluster_SyncFiles(faults, sf')
    /\ UNCHANGED <<backend, files, impl, maxConcurrency, served, missing, dl, tasks,
                   storeOnly>>

\* SyncFiles: sm.storage.GetMissingFiles(storageFiles), and on success entry
\* into syncFiles / downloadMissingFiles (channels and wait group created).
\* statErr: os.Stat fails in Exists (FileStorage, first version, only).
S_GetMissingFiles(statErr) ==
    /\ proc = "running"
    /\ sf.pc = "getMissing"
    /\ statErr => backend = "FileStorage"
    /\ hist' = [hist EXCEPT !.getMissing = TRUE]
    /\ IF statErr
       THEN /\ sf' = StageFailed(sf)
            /\ UNCHANGED <<missing, dl, tasks>>
       ELSE /\ missing' = GetMissingFiles(backend, files, listed)
            /\ sf' = [sf EXCEPT !.pc = "download"]
            /\ dl' = [NoPass EXCEPT !.pc = "loop"]
            /\ tasks' = [t \in 1..MaxFiles |-> NoTask]
    /\ faults' = Cluster_SyncFiles(faults, sf')
    /\ UNCHANGED <<backend, files, impl, maxConcurrency, served, proc, errorCount, listed,
                   storeOnly>>

\* the loop of the download pass: wg.Add(1); go func(f) {...}(file)
D_Spawn ==
    /\ proc = "running"
    /\ dl.pc = "loop"
    /\ dl.k <= Len(missing)
    /\ tasks' = [tasks EXCEPT ![dl.k].pc = "spawned"]
    /\ dl' = [dl EXCEPT !.k = @ + 1, !.wg = @ + 1]
    /\ UNCHANGED <<backend, files, impl, maxConcurrency, served, proc, errorCount, sf,
                   listed, missing, hist, faults,
                   storeOnly>>

\* downloadMissingFiles (part_002): wg.Wait(); close(errChan); count
D_Wait ==
    /\ proc = "running"
    /\ impl = "part_002"
    /\ dl.pc = "loop"
    /\ dl.k > Len(missing)
    /\ dl.wg = 0
    /\ dl' = [dl EXCEPT !.pc = "done", !.errClosed = TRUE, !.failedCount = dl.errChan]
    /\ UNCHANGED <<backend, files, impl, maxConcurrency, served, proc, errorCount, sf,
                   listed, missing, tasks, hist, faults,
                   storeOnly>>

\* syncFiles (part_003): close(errChan); count what is buffered
D_CloseErrChan ==
    /\ proc = "running"
    /\ impl = "part_003"
    /\ dl.pc = "loop"
    /\ dl.k > Len(missing)
    /\ dl' = [dl EXCEPT !.pc = "closeSem", !.errClosed = TRUE, !.failedCount = dl.errChan]
    /\ UNCHANGED <<backend, files, impl, maxConcurrency, served, proc, errorCount, sf,
                   listed, missing, tasks, hist, faults,
                   storeOnly>>

\* syncFiles (part_003): close(semaphore); return failedCount
D_CloseSemaphore ==
    /\ proc = "running"
    /\ dl.pc = "closeSem"
    /\ dl' = [dl EXCEPT !.pc = "done", !.semClosed = TRUE]
    /\ UNCHANGED <<backend, files, impl, maxConcurrency, served, proc, errorCount, sf,
                   listed, missing, tasks, hist, faults,
                   storeOnly>>

\* SyncFiles: the pass has returned failedCount
S_AfterDownload ==
    /\ proc = "running"
    /\ sf.pc = "download"
    /\ dl.pc = "done"
    /\ IF dl.failedCount > 0
       THEN /\ sf' = StageFailed(sf)
            /\ errorCount' = errorCount
       ELSE /\ sf' = Return(sf, "nil")
            /\ errorCount' = ResetErrors(errorCount)
    /\ faults' = Cluster_SyncFiles(faults, sf')
    /\ UNCHANGED <<backend, files, impl, maxConcurrency, served, proc, listed, missing, dl,
                   tasks, hist, storeOnly>>

\* SyncFiles (part_002), after the loop: sm.errorMgr.RecordError(lastErr);
\* return the error
S_GiveUp ==
    /\ proc = "running"
    /\ sf.pc = "giveUp"
    /\ errorCount' = RecordError(errorCount)
    /\ IF IsFatal(errorCount')
       THEN proc' = "exited" /\ sf' = sf
       ELSE proc' = proc /\ sf' = Return(sf, "err")
    /\ faults' = Cluster_SyncFiles(faults, sf')
    /\ UNCHANGED <<backend, files, impl, maxConcurrency, served, listed, missing, dl,
                   tasks, hist, storeOnly>>

\* a download goroutine: semaphore <- struct{}{}.  A send on the closed
\* channel panics.
T_Acquire(t) ==
    /\ proc = "running"
    /\ tasks[t].pc = "spawned"
    /\ IF dl.semClosed
       THEN /\ tasks' = [tasks EXCEPT ![t].pc = "panic"]
            /\ dl' = dl
       ELSE /\ SemHasRoom
            /\ tasks' = [tasks EXCEPT ![t].pc = "download", ![t].holds = TRUE]
            /\ dl' = [dl EXCEPT !.sem = @ + 1]
    /\ UNCHANGED <<backend, files, impl, maxConcurrency, served, proc, errorCount, sf,
                   listed, missing, hist, faults,
                   storeOnly>>

\* a download goroutine: one call of downloadFile: doRequest, storage.Put,
\* then ResetErrors, or on failure the load of erm.errorCount++ in
\* RecordError.  The counter is shared by the goroutines without a lock, so
\* the load and the store of the increment are separate steps.
DownloadOutcomes == {"noToken", "reqErr"} \cup PutOutcomes(backend)

T_Download(t, outcome) ==
    /\ proc = "running"
    /\ tasks[t].pc = "download"
    /\ outcome \in DownloadOutcomes
    /\ LET h == missing[t]
           made == tasks[t].attempt + 1
       IN
        /\ hist' = [hist EXCEPT !.requested = TRUE,
                                !.bare = @ \/ (outcome = "noToken" /\ RequestSent(outcome))]
        /\ files' = IF outcome \in {"noToken", "reqErr"} THEN files
                    ELSE Put(backend, files, h, 1, outcome)
        /\ IF outcome = "ok"
           THEN /\ errorCount' = ResetErrors(errorCount)
                /\ tasks' = [tasks EXCEPT ![t].pc = "defer", ![t].attempt = made,
                                          ![t].res = "ok"]
           ELSE /\ errorCount' = errorCount
                /\ tasks' = [tasks EXCEPT ![t].pc = "record", ![t].attempt = made,
                                          ![t].seen = errorCount]
    /\ UNCHANGED <<backend, impl, maxConcurrency, served, proc, sf, listed, missing, dl,
                   faults,
                   storeOnly>>

\* a download goroutine in RecordError: the store of erm.errorCount++
T_RecordError(t) ==
    /\ proc = "running"
    /\ tasks[t].pc = "record"
    /\ errorCount' = RecordError(tasks[t].seen)
    /\ tasks' = [tasks EXCEPT ![t].pc = "recorded", ![t].seen = 0]
    /\ UNCHANGED <<backend, files, impl, maxConcurrency, served, proc, sf, listed, missing,
                   dl, hist, faults,
                   storeOnly>>

\* a download goroutine: the test that ends RecordError (logger.Fatal when
\* the count it reads is over the threshold), downloadFile returns the error,
\* and what the caller does with it: part_002 sends it to errChan; part_003
\* (downloadFileWithRetry) tries again until the third failure, which it
\* sends to errChan.  A send on the closed errChan panics.
T_DownloadFailed(t) ==
    /\ proc = "running"
    /\ tasks[t].pc = "recorded"
    /\ IF IsFatal(errorCount)
       THEN /\ proc' = "exited"
            /\ UNCHANGED <<tasks, dl>>
       ELSE /\ proc' = proc
            /\ IF impl = "part_003" /\ HasNextAttempt(tasks[t].attempt)
               THEN /\ tasks' = [tasks EXCEPT ![t].pc = "download"]
                    /\ dl' = dl
               ELSE IF dl.errClosed
               THEN /\ tasks' = [tasks EXCEPT ![t].pc = "panic", ![t].res = "fail"]
                    /\ dl' = dl
               ELSE /\ tasks' = [tasks EXCEPT ![t].pc = "defer", ![t].res = "fail"]
                    /\ dl' = [dl EXCEPT !.errChan = @ + 1]
    /\ UNCHANGED <<backend, files, impl, maxConcurrency, served, errorCount, sf, listed,
                   missing, hist, faults,
                   storeOnly>>

\* a download goroutine, deferred: count, take a token back from the
\* semaphore, wg.Done().  part_002 receives (<-semaphore); part_003 receives
\* only if a token is there (select with default).  A goroutine that got
\* here by a panic ends the process.
T_Defer(t) ==
    /\ proc = "running"
    /\ tasks[t].pc \in {"defer", "panic"}
    /\ impl = "part_002" => dl.sem > 0
    /\ dl' = [dl EXCEPT !.sem = IF @ > 0 THEN @ - 1 ELSE @,
                        !.wg = @ - 1,
                        !.downloadedCount = @ + 1]
    /\ tasks' = [tasks EXCEPT ![t].pc = "done", ![t].holds = FALSE]
    /\ proc' = IF tasks[t].pc = "panic" THEN "panicked" ELSE proc
    /\ UNCHANGED <<backend, files, impl, maxConcurrency, served, errorCount, sf, listed,
                   missing, hist, faults,
                   storeOnly>>

NextSync ==
    \/ \E r \in BOOLEAN : S_Check(r)
    \/ \E resp \in {"noToken", "err", "204", "200"} : S_GetFileList(resp)
    \/ \E e \in BOOLEAN : S_GetMissingFiles(e)
    \/ D_Spawn
    \/ D_Wait
    \/ D_CloseErrChan
    \/ D_CloseSemaphore
    \/ S_AfterDownload
    \/ S_GiveUp
    \/ \E t \in 1..MaxFiles : T_Acquire(t)
    \/ \E t \in 1..MaxFiles, o \in {"noToken", "ok", "reqErr", "createErr", "copyErr"} :
          T_Download(t, o)
    \/ \E t \in 1..MaxFiles : T_RecordError(t)
    \/ \E t \in 1..MaxFiles : T_DownloadFailed(t)
    \/ \E t \in 1..MaxFiles : T_Defer(t)

SpecSync == InitSync /\ [][NextSync]_vars

-----------------------------------------------------------------------------
(* Claims about the reconciliation engine *)

\* the tasks of the current pass
PassTasks == 1..Len(missing)

InFlight == {t \in 1..MaxFiles : tasks[t].holds}

Failed == {t \in PassTasks : tasks[t].res = "fail"}

Succeeded == {t \in PassTasks : tasks[t].res = "ok"}

\* C1: the number of download tasks that have acquired an admission slot and
\* not yet released it never exceeds N, the configured MaxConcurrency, or 64
\* when that is <= 0.
C1_InFlightAtMostLimit ==
    Cardinality(InFlight) <= (IF maxConcurrency <= 0 THEN 64 ELSE maxConcurrency)

\* C1 witness: the gate is full and a further task is waiting for a slot.
C1_GateFullAndTaskWaiting ==
    /\ maxConcurrency > 0
    /\ Cardinality(InFlight) = maxConcurrency
    /\ \E t \in PassTasks : tasks[t].pc = "spawned"

\* C2: when the download pass has returned, every task it started has
\* finished, and succeeded + failed = number of missing files, failed being
\* the count the pass returns.
C2_PassReturnsAfterAllTasks ==
    dl.pc = "done" =>
        /\ \A t \in PassTasks : tasks[t].pc = "done"
        /\ dl.failedCount = Cardinality(Failed)
        /\ Cardinality(Succeeded) + dl.failedCount = Len(missing)

\* C3: the gate never refuses a task: no task of a pass ends without having
\* been given its admission slot and made its download.
C3_EveryTaskGetsASlot ==
    \A t \in PassTasks : tasks[t].pc \in {"panic", "done"} => tasks[t].attempt >= 1

\* C4: a file is tried at most 3 times, never again after a success, and a
\* file whose attempts all failed is counted as failed, once, in the tally
\* of the pass.
C4_RetryThenTally ==
    /\ \A t \in PassTasks : tasks[t].attempt <= 3
    /\ \A t \in PassTasks : tasks[t].res = "ok" => tasks[t].pc \in {"defer", "done"}
    /\ dl.errClosed => dl.failedCount = Cardinality(Failed)

\* C5: SyncFiles makes at most 5 passes, returns an error only after the
\* fifth failing pass, and after the fifth failing pass does return it.
C5_FivePassesThenError ==
    /\ sf.i <= 5
    /\ sf.ret = "err" => sf.i = 5
    /\ sf.pc = "giveUp" => proc = "running"

\* C6: a failing download of one file is not recorded in the fault counter,
\* does not terminate the process and changes no sibling task.
C6_FileFailureStaysLocal ==
    [][\A t \in 1..MaxFiles :
          (tasks[t].pc \in {"record", "recorded"} /\ tasks'[t] # tasks[t]) =>
              /\ errorCount' = errorCount
              /\ proc' = "running"
              /\ \A u \in 1..MaxFiles \ {t} : tasks'[u] = tasks[u]]_vars

\* C9: once the manifest endpoint has answered 204, SyncFiles has returned
\* success with an empty list, and the pass that got the answer has made no
\* call of GetMissingFiles and no download request (so no Put); no task is
\* running and no further pass follows.
C9_NoContentEndsSyncFiles ==
    hist.got204 =>
        /\ sf.pc = "returned" /\ sf.ret = "nil"
        /\ listed = <<>>
        /\ ~hist.getMissing /\ ~hist.requested
        /\ \A t \in 1..MaxFiles : tasks[t].pc \in {"none", "done"}

\* C9 witness: a 204 answer has been handled, with nothing asked of the store
\* and nothing downloaded.
C9_ReturnedOnNoContent ==
    hist.got204 /\ sf.pc = "returned"

-----
(* Claims about the store *)

\* C7: GetMissingFiles(candidates) returns exactly the candidates whose hash
\* is not the hash of an object stored at shard(hash)/hash.
C7_MissingIsExactlyTheAbsent ==
    op.name = "GetMissingFiles" =>
        Range(op.missing) = {h \in Range(op.cands) : h \notin StoredHashes}

\* C8: after a successful Put of every file GetMissingFiles(S) reported, a
\* following GetMissingFiles(S) reports nothing.
C8_NothingMissingAfterPuts ==
    op.name = "GetMissingFiles" => op.afterPuts = <<>>

\* C10: after a GC(retain) in which every delete succeeded, the stored hashes
\* are the hashes stored before that are in retain.
C10_GCLeavesPriorAndRetained ==
    (gc.pc = "done" /\ ~gc.failed) => StoredHashes = gc.prior \cap gc.keep

\* C11: at every point of a GC sweep, and when it has ended, every object
\* that was stored when the sweep began and whose hash is to be retained is
\* still stored, with the content it had.
C11_GCKeepsRetained ==
    gc.pc \in {"sweep", "done"} =>
        \A h \in gc.prior \cap gc.keep :
            /\ PathOf(h) \in DOMAIN files
            /\ files[PathOf(h)] = gc.before[PathOf(h)]

\* what the sweep visits for the object stored under hash h
GCItemOf(b, h) == CHOOSE x \in GCListing(b, WithFile(<<>>, PathOf(h), Partial)) : TRUE

\* C12: when the sweep has ended and the environment made the deletion of
\* exactly one object fail, GC has returned nil, every other object that was
\* stored and is not to be retained is gone, and no file is there that was
\* not there before.
C12_SweepGoesOnAfterFailure ==
    (gc.pc = "done" /\ Cardinality(gc.envFailed) = 1) =>
        /\ op.name = "GC" /\ ~op.err
        /\ \A h \in gc.prior \ gc.keep :
               GCItemOf(backend, h) \notin gc.envFailed => h \notin StoredHashes
        /\ DOMAIN files \subseteq DOMAIN gc.before

-----------------------------------------------------------------------------
(* The download server: package utils and package server (two versions) *)

\* the characters of paths, secrets and signatures, in the order of their codes
Chars == <<"/", "0", "1", "2", "3", "4", "5", "6", "7", "8", "9",
           "A", "B", "C", "D", "E", "F",
           "a", "b", "c", "d", "e", "f", "k", "l", "n", "o", "s", "w", "x">>

Ord == [c \in Range(Chars) |-> CHOOSE i \in 1..Len(Chars) : Chars[i] = c]

HexDigits == <<"0", "1", "2", "3", "4", "5", "6", "7", "8", "9", "a", "b", "c", "d", "e", "f">>

\* the digest absorbs a string, one character after the other
RECURSIVE Absorb(_, _)
Absorb(acc, str) ==
    IF str = <<>> THEN acc
    ELSE Absorb((acc * 31 + Ord[Head(str)]) % 256, Tail(str))

\* hmac.New(sha256.New, key); h.Write(message); h.Sum(nil): a keyed digest
\* of the message, here of one byte in place of thirty-two
HMAC_SHA256(key, message) == <<Absorb((Absorb(Len(key), key) * 7 + 1) % 256, message)>>

\* hex.EncodeToString: two lower-case digits for each byte
RECURSIVE EncodeToString(_)
EncodeToString(bytes) ==
    IF bytes = <<>> THEN <<>>
    ELSE <<HexDigits[(Head(bytes) \div 16) + 1], HexDigits[(Head(bytes) % 16) + 1]>>
         \o EncodeToString(Tail(bytes))

\* utils.SignRequest
SignRequest(key, message) == EncodeToString(HMAC_SHA256(key, message))

\* a comparison of the first character only
EqualFirst(x, y) == (x = <<>> /\ y = <<>>) \/ (x # <<>> /\ y # <<>> /\ x[1] = y[1])

\* hmac.Equal: the same length and the same bytes
Equal(x, y) == Len(x) = Len(y) /\ \A i \in 1..Len(x) : x[i] = y[i]

\* utils.VerifySignature
VerifySignature(key, message, signature) == Equal(SignRequest(key, message), signature)

DownloadPrefix == <<"/", "d", "o", "w", "n", "l", "o", "a", "d", "/">>

\* strings.TrimPrefix
TrimPrefix(str, prefix) ==
    IF Len(str) >= Len(prefix) /\ SliceTo(str, Len(prefix)) = prefix
    THEN SliceFrom(str, Len(prefix))
    ELSE str

\* utils.ExtractHashFromPath: the first segment of what follows /download/
ExtractHashFromPath(path) == FirstPart(TrimPrefix(path, DownloadPrefix), Separator)

Servers == {"server.go", "part_001"}

\* the hash the handler takes from the URL: r.URL.Path[len("/download/"):]
\* (server.go), utils.ExtractHashFromPath(r.URL.Path) (part_001)
RequestHash(version, path) ==
    IF version = "server.go" THEN SliceFrom(path, Len(DownloadPrefix))
    ELSE ExtractHashFromPath(path)

\* the signature check of the handler: utils.VerifySignature on
\* query.Get("sign") (server.go); Server.verifyRequest, which refuses an
\* empty signature first (part_001)
Authorized(version, key, hash, sign) ==
    IF version = "server.go" THEN VerifySignature(key, hash, sign)
    ELSE sign # <<>> /\ VerifySignature(key, hash, sign)

\* Storage.Get(hash).  hash[:2] panics on a hash shorter than two
\* characters.  The local stores open the file (io = "openErr": os.Open
\* fails on a file that is there); WebDAVStorage builds the URL of the file
\* and returns a redirectReadCloser without asking the remote server.
NoReader == [panic |-> FALSE, err |-> FALSE, type |-> "nil", data |-> <<>>, url |-> <<>>]

Get(b, fsys, hash, io) ==
    IF Len(hash) < ShardLen THEN [NoReader EXCEPT !.panic = TRUE]
    ELSE IF IsLocal(b)
    THEN IF Exists(fsys, hash) /\ io # "openErr"
         THEN [NoReader EXCEPT !.type = "os.File", !.data = <<fsys[PathOf(hash)]>>]
         ELSE [NoReader EXCEPT !.err = TRUE]
    ELSE [NoReader EXCEPT !.type = "redirectReadCloser",
                          !.url = <<Separator>> \o PathOf(hash)]

\* the methods of the readers Get returns, as far as the handler asks for them
ReaderMethods(type) ==
    CASE type = "os.File" -> {"Read", "Close"}
      [] type = "redirectReadCloser" -> {"Read", "Close"}
      [] OTHER -> {}

\* io.Copy(w, fileReader) fails before the first byte: Read of a
\* redirectReadCloser always returns an error; a file may fail to be read
CopyFails(reader, io) == reader.type = "redirectReadCloser" \/ io = "readErr"

\* a handler that asks the store before it has looked at the request
GetThenCheck(version, b, fsys, key, path, sign, io) ==
    LET hash == RequestHash(version, path)
        req == [NoReply EXCEPT !.path = path, !.sign = sign, !.io = io, !.hash = hash,
                               !.gets = 1]
    IN  IF hash = <<>> THEN [req EXCEPT !.status = 400]
        ELSE IF ~Authorized(version, key, hash, sign)
        THEN [req EXCEPT !.verified = "fail", !.status = 403]
        ELSE [req EXCEPT !.verified = "pass", !.status = 404]

\* Server.handleDownload: the request handled and the response.  status 0:
\* the handler panicked, net/http closes the connection without a response.
handleDownload(version, b, fsys, key, path, sign, io) ==
    LET hash == RequestHash(version, path)
        req == [NoReply EXCEPT !.path = path, !.sign = sign, !.io = io, !.hash = hash]
    IN  IF hash = <<>> THEN [req EXCEPT !.status = 400]
        ELSE IF ~Authorized(version, key, hash, sign)
        THEN [req EXCEPT !.verified = "fail", !.status = 403]
        ELSE IF version = "part_001"
        THEN [req EXCEPT !.verified = "pass", !.status = 404]
        ELSE LET reader == Get(b, fsys, hash, io)
                 got == [req EXCEPT !.verified = "pass", !.gets = 1]
             IN  IF reader.panic THEN got
                 ELSE IF reader.err THEN [got EXCEPT !.status = 404]
                 ELSE IF "GetRedirectURL" \in ReaderMethods(reader.type)
                 THEN [got EXCEPT !.status = 302, !.location = reader.url]
                 ELSE IF CopyFails(reader, io) THEN [got EXCEPT !.status = 500]
                 ELSE [got EXCEPT !.status = 200, !.body = reader.data]

\* a handler that reports the requests it refuses to the ErrorRetryManager
RecordRefused(cnt, status) == IF status >= 400 THEN RecordError(cnt) ELSE cnt

\* the count of Cluster.errorMgr after a download request: the handler does
\* not call the ErrorRetryManager
FaultsAfterRequest(cnt, status) == cnt

Secrets == {<<"k">>, <<"s", "k">>}

\* the paths requested; after /download/ comes nothing, one character, a
\* hash, or a hash and a further segment
Paths ==
    {DownloadPrefix \o r : r \in {<<>>, <<"a">>, HashOf(1) \o <<Separator, "x">>} \cup Hashes}

\* a hexadecimal string in upper case
Upper(str) ==
    [i \in 1..Len(str) |->
        CASE str[i] = "a" -> "A" [] str[i] = "b" -> "B" [] str[i] = "c" -> "C"
          [] str[i] = "d" -> "D" [] str[i] = "e" -> "E" [] str[i] = "f" -> "F"
          [] OTHER -> str[i]]

\* the sign parameters tried with a path on a node with secret key: none;
\* for each reading of the hash the signature, the signature in upper case,
\* cut short, and with a digit more; the signatures made with other secrets
SignaturesFor(key, path) ==
    LET hashes == {RequestHash(v, path) : v \in Servers}
        good == {SignRequest(key, m) : m \in hashes}
    IN  {<<>>} \cup good \cup {Upper(g) : g \in good} \cup {SliceTo(g, 1) : g \in good}
        \cup {g \o <<"0">> : g \in good}
        \cup {SignRequest(k, m) : k \in Secrets \ {key}, m \in hashes}

\* the stores the server may find: the first n hashes of the manifest, each
\* stored whole or cut short
StoreOf(S, d) == [p \in {PathOf(h) : h \in S} |-> d]

Stores == {StoreOf({HashOf(j) : j \in 1..n}, d) : n \in 0..NumHashes, d \in {Partial, MaxData}}

\* the server starts when main has run Init, Connect and SyncFiles: the
\* store holds what was synchronised, and the Cluster's error count is 1 if
\* SyncFiles failed
InitServer ==
    /\ backend \in Backends
    /\ files \in Stores
    /\ op = NoOp
    /\ gc = GCIdle
    /\ SyncIdle
    /\ faults \in {0, 1}
    /\ srv \in Servers
    /\ secret \in Secrets
    /\ reply = NoReply
    /\ GovernorIdle
    /\ TokenIdle
    /\ dav = NoDav
    /\ al = NoInit

\* GET path?sign=sign is handled
Serve(path, sign, io) ==
    /\ proc = "running"
    /\ reply' = handleDownload(srv, backend, files, secret, path, sign, io)
    /\ faults' = FaultsAfterRequest(faults, reply'.status)
    /\ proc' = IF IsFatal(faults') THEN "exited" ELSE proc
    /\ UNCHANGED <<backend, files, op, gc, impl, maxConcurrency, served, errorCount, sf,
                   listed, missing, dl, tasks, hist, srv, secret, governorOnly,
                   tokenVars, remoteOnly>>

NextServer ==
    \E path \in Paths, io \in {"ok", "openErr", "readErr"} :
        \E sign \in SignaturesFor(secret, path) : Serve(path, sign, io)

SpecServer == InitServer /\ [][NextServer]_vars

-----------------------------------------------------------------------------
(* Claims about the download server *)

\* C13: whenever the handler has consulted the signature check, the request
\* passed it if and only if its sign parameter is the lower-case hexadecimal
\* HMAC of the hash under the node's secret; every other sign parameter,
\* the empty one included, was answered 403.
C13_SignatureDecides ==
    reply.verified # "none" =>
        /\ (reply.verified = "pass") <=> (reply.sign = SignRequest(secret, reply.hash))
        /\ reply.verified = "fail" => reply.status = 403

C13_SignedRequestPassed ==
    /\ reply.verified = "pass"
    /\ reply.hash \in Hashes
    /\ reply.sign = SignRequest(secret, reply.hash)

\* C14: a request with an empty hash is answered 400, a request whose sign
\* parameter is missing or wrong 403, in both cases without a call of
\* Store.Get; Store.Get is called only for a non-empty hash with the right
\* signature.
C14_ChecksBeforeStore ==
    reply.path # <<>> =>
        /\ reply.hash = <<>> => (reply.status = 400 /\ reply.gets = 0)
        /\ (reply.hash # <<>> /\ reply.sign # SignRequest(secret, reply.hash)) =>
               (reply.status = 403 /\ reply.gets = 0)
        /\ reply.gets > 0 =>
               (reply.hash # <<>> /\ reply.sign = SignRequest(secret, reply.hash))

C14_WrongSignatureForStoredObject ==
    /\ reply.hash \in StoredHashes
    /\ reply.sign \notin {<<>>, SignRequest(secret, reply.hash)}
    /\ reply.status = 403
    /\ reply.gets = 0

\* C15: a request with the right signature makes the handler call Store.Get
\* once; the answer is 302 to the object's URL on the remote backend, 200
\* with the object's bytes on a local backend that holds the object and
\* reads it without failure, and 404 on a local backend that does not hold
\* it.
C15_ValidRequestAnswered ==
    (reply.hash # <<>> /\ reply.sign = SignRequest(secret, reply.hash)) =>
        /\ reply.gets = 1
        /\ (~IsLocal(backend) /\ reply.hash \in StoredHashes) =>
               (reply.status = 302 /\ reply.location # <<>>)
        /\ (IsLocal(backend) /\ reply.hash \in StoredHashes /\ reply.io = "ok") =>
               (reply.status = 200 /\ reply.body = <<files[PathOf(reply.hash)]>>)
        /\ (IsLocal(backend) /\ reply.hash \notin StoredHashes) => reply.status = 404

\* C16: every response to a download request has one of the statuses 200,
\* 302, 400, 403, 404.
C16_StatusesOfDownload ==
    reply.status # 0 => reply.status \in {200, 302, 400, 403, 404}

\* C17: a request answered 400 or 403 leaves the Cluster's error count and
\* the store as they were, and the process running, ready for the next
\* request.
C17_RefusalLeavesNodeAlone ==
    [][reply'.status \in {400, 403} =>
          (faults' = faults /\ files' = files /\ proc' = "running")]_vars

C17_RefusedWithFaultsAndObjects ==
    /\ reply.status \in {400, 403}
    /\ faults > 0
    /\ StoredHashes # {}
    /\ proc = "running"

-----------------------------------------------------------------------------
(* One ErrorRetryManager and the goroutines that call it *)

\* the three versions of the type: package cluster, and package sync twice
Managers == {"cluster.go", "part_002", "part_003"}

\* erm.mu.Lock() / defer erm.mu.Unlock(): only the ErrorRetryManager of
\* package cluster has the mutex
HasMutex(file) == file = "cluster.go"

InitGovernor ==
    /\ backend = "FileStorage"
    /\ files = <<>>
    /\ op = NoOp
    /\ gc = GCIdle
    /\ SyncIdle
    /\ ServerIdle
    /\ erm \in {[file |-> f, mu |-> 0] : f \in Managers}
    /\ callers = [c \in 1..MaxCallers |-> NoCall]
    /\ TokenIdle
    /\ dav = NoDav
    /\ al = NoInit

\* goroutine c calls RecordError or ResetErrors; with the mutex, it enters
\* when no other call is inside
G_Call(c, method) ==
    /\ proc = "running"
    /\ callers[c].pc = "idle"
    /\ IF HasMutex(erm.file)
       THEN erm.mu = 0 /\ erm' = [erm EXCEPT !.mu = c]
       ELSE erm' = erm
    /\ callers' = [callers EXCEPT ![c].pc = IF method = "RecordError" THEN "load" ELSE "reset"]
    /\ UNCHANGED <<backend, files, op, gc, impl, maxConcurrency, served, proc, errorCount,
                   sf, listed, missing, dl, tasks, hist, faults, serverOnly,
                   tokenVars, remoteOnly>>

\* RecordError, erm.errorCount++: the load
G_Load(c) ==
    /\ proc = "running"
    /\ callers[c].pc = "load"
    /\ callers' = [callers EXCEPT ![c].pc = "store", ![c].seen = errorCount]
    /\ UNCHANGED <<backend, files, op, gc, impl, maxConcurrency, served, proc, errorCount,
                   sf, listed, missing, dl, tasks, hist, faults, serverOnly, erm,
                   tokenVars, remoteOnly>>

\* RecordError, erm.errorCount++: the store
G_Store(c) ==
    /\ proc = "running"
    /\ callers[c].pc = "store"
    /\ RecordError(callers[c].seen) <= MaxCount
    /\ errorCount' = RecordError(callers[c].seen)
    /\ callers' = [callers EXCEPT ![c].pc = "test", ![c].seen = 0]
    /\ UNCHANGED <<backend, files, op, gc, impl, maxConcurrency, served, proc, sf, listed,
                   missing, dl, tasks, hist, faults, serverOnly, erm,
                   tokenVars, remoteOnly>>

\* RecordError: if erm.errorCount > erm.maxRetries, logger.Fatal (os.Exit);
\* else the call returns
G_Test(c) ==
    /\ proc = "running"
    /\ callers[c].pc = "test"
    /\ IF IsFatal(errorCount)
       THEN proc' = "exited" /\ UNCHANGED <<callers, erm>>
       ELSE /\ proc' = proc
            /\ callers' = [callers EXCEPT ![c] = NoCall]
            /\ erm' = [erm EXCEPT !.mu = 0]
    /\ UNCHANGED <<backend, files, op, gc, impl, maxConcurrency, served, errorCount, sf,
                   listed, missing, dl, tasks, hist, faults, serverOnly,
                   tokenVars, remoteOnly>>

\* ResetErrors, and the call returns
G_Reset(c) ==
    /\ proc = "running"
    /\ callers[c].pc = "reset"
    /\ errorCount' = ResetErrors(errorCount)
    /\ callers' = [callers EXCEPT ![c] = NoCall]
    /\ erm' = [erm EXCEPT !.mu = 0]
    /\ UNCHANGED <<backend, files, op, gc, impl, maxConcurrency, served, proc, sf, listed,
                   missing, dl, tasks, hist, faults, serverOnly,
                   tokenVars, remoteOnly>>

NextGovernor ==
    \/ \E c \in 1..MaxCallers, m \in {"RecordError", "ResetErrors"} : G_Call(c, m)
    \/ \E c \in 1..MaxCallers : G_Load(c)
    \/ \E c \in 1..MaxCallers : G_Store(c)
    \/ \E c \in 1..MaxCallers : G_Test(c)
    \/ \E c \in 1..MaxCallers : G_Reset(c)

SpecGovernor == InitGovernor /\ [][NextGovernor]_vars

-----------------------------------------------------------------------------
(* Claims about the fault governor *)

\* C18: the process is running with a count over the threshold only inside
\* the RecordError that raised it, and from such a state the next step of the
\* process is its termination: no ResetErrors and no other operation comes
\* in between.
C18_TerminatesPastThreshold ==
    /\ [](proc = "running" /\ errorCount > ErrorThreshold =>
             \E c \in 1..MaxCallers : callers[c].pc = "test")
    /\ [][errorCount > ErrorThreshold => proc' = "exited"]_vars

\* C19: the node has one error count: what the Cluster's ErrorRetryManager
\* shows is what the SyncManager's shows, at every moment of a
\* synchronisation; a failure or a success recorded by either is seen in
\* both.
C19_OneFaultCounter == faults = errorCount

-----------------------------------------------------------------------------
(* The TokenManager and the goroutines that call GetToken *)

\* the status of a response of the authority; 0: the request failed without
\* a response.  Each of 200 and 201 is the accepted status of one request
\* and a refused one of the other.
Statuses == {0, 200, 201}

\* the tokens the authority issues; a response without a token decodes to ""
Tokens == {"", "t1", "t2"}

TTLs == {500, 1500, 12000}

\* the responses to a token request: none or an undecodable one, or one
\* that decodes to a token and its ttl (any token and any ttl with status
\* 201)
TokenResponses ==
    {[status |-> st, readable |-> FALSE, token |-> "", ttl |-> 0] : st \in Statuses}
    \cup {[status |-> 200, readable |-> TRUE, token |-> "t1", ttl |-> 500]}
    \cup {[status |-> 201, readable |-> TRUE, token |-> tok, ttl |-> 500] :
             tok \in Tokens}
    \cup {[status |-> 201, readable |-> TRUE, token |-> "t1", ttl |-> ttl] :
             ttl \in TTLs}

\* fetchToken: resp.StatusCode != http.StatusOK is an error
ChallengeAccepted(status) == status = 200

\* a token request that takes every response for a success
AnyResponse(status) == status # 0

\* fetchToken, refreshToken: tokenResp.StatusCode != http.StatusCreated is
\* an error
TokenAccepted(status) == status = 201

\* a Duration: a signed integer of DurationBits bits, multiplication wraps
Wrap(x) == ((x + 2^(DurationBits - 1)) % 2^DurationBits) - 2^(DurationBits - 1)

\* scheduleRefresh: time.Sleep(time.Duration(refreshTime) * time.Second):
\* the ticks that pass before refreshToken; Sleep returns at once for a
\* duration that is not positive
RefreshDelay(ttl) ==
    LET refreshTime == IF ttl \div 2 < MinRefresh THEN MinRefresh ELSE ttl \div 2
        d == Wrap(refreshTime * Second)
    IN  IF d <= 0 THEN 0 ELSE d

\* go tm.scheduleRefresh(ttl): the goroutine that sleeps
Timer(ttl) == [ttl |-> ttl, delay |-> RefreshDelay(ttl)]

\* refreshToken, fetchToken: go tm.scheduleRefresh(tokenRespData.TTL).  The
\* sleeping goroutines have no order; they are listed by their ttl.
Rescheduled(timers, ttl) ==
    LET before == SelectSeq(timers, LAMBDA t : t.ttl <= ttl)
        after == SelectSeq(timers, LAMBDA t : t.ttl > ttl)
    IN  before \o <<Timer(ttl)>> \o after

\* GetToken without the test of the token held
NeverHeld(tok) == FALSE

\* GetToken: if token != ""
Held(tok) == tok # ""

\* the timers without the i-th
RemoveAt(seq, i) == SubSeq(seq, 1, i - 1) \o SubSeq(seq, i + 1, Len(seq))

\* a refresh goroutine that ends without starting another
RefreshEnded(timers, i, ttl) == RemoveAt(timers, i)

\* refreshToken after a 201: the goroutine of the i-th timer starts the next
\* one, go tm.scheduleRefresh(tokenRespData.TTL), and ends
RefreshedAgain(timers, i, ttl) == Rescheduled(RemoveAt(timers, i), ttl)

InitToken ==
    /\ backend = "FileStorage"
    /\ files = <<>>
    /\ op = NoOp
    /\ gc = GCIdle
    /\ SyncIdle
    /\ ServerIdle
    /\ GovernorIdle
    /\ TokenIdle
    /\ dav = NoDav
    /\ al = NoInit

\* GetToken: the token held is returned; with none held, fetchToken is
\* entered
TK_GetToken(g) ==
    /\ getters[g].pc \in {"idle", "done"}
    /\ getters' = [getters EXCEPT ![g] =
                      IF Held(tm.token) THEN [NoGet EXCEPT !.pc = "done", !.ret = tm.token]
                      ELSE [NoGet EXCEPT !.pc = "challenge"]]
    /\ UNCHANGED <<tm, besideToken>>

\* fetchToken: GET challenge, read and decode the response
TK_Challenge(g, status, readable) ==
    /\ getters[g].pc = "challenge"
    /\ getters' = [getters EXCEPT ![g] =
                      IF ChallengeAccepted(status) /\ readable
                      THEN [@ EXCEPT !.pc = "token", !.reqs = 1, !.challenge = status]
                      ELSE [@ EXCEPT !.pc = "done", !.reqs = 1, !.challenge = status,
                                     !.err = TRUE]]
    /\ UNCHANGED <<tm, besideToken>>

\* fetchToken: POST the signed challenge, read and decode the response,
\* store the token, go tm.scheduleRefresh(ttl), return the token
TK_Token(g, r) ==
    /\ getters[g].pc = "token"
    /\ IF TokenAccepted(r.status) /\ r.readable
       THEN /\ Len(tm.timers) < MaxTimers
            /\ tm' = [tm EXCEPT !.token = r.token, !.timers = Rescheduled(@, r.ttl)]
            /\ getters' = [getters EXCEPT ![g] =
                              [@ EXCEPT !.pc = "done", !.reqs = 2, !.answer = r.status,
                                        !.ret = r.token]]
       ELSE /\ tm' = tm
            /\ getters' = [getters EXCEPT ![g] =
                              [@ EXCEPT !.pc = "done", !.reqs = 2, !.answer = r.status,
                                        !.err = TRUE]]
    /\ UNCHANGED besideToken

\* scheduleRefresh after its sleep: refreshToken posts the token held; a
\* 201 with a decodable body replaces the token and schedules the next
\* refresh, everything else ends this chain of refreshes
TK_Refresh(i, r) ==
    /\ i \in 1..Len(tm.timers)
    /\ tm' = IF TokenAccepted(r.status) /\ r.readable
             THEN [token |-> r.token,
                   timers |-> RefreshedAgain(tm.timers, i, r.ttl),
                   last |-> [res |-> "ok", token |-> r.token, ttl |-> r.ttl]]
             ELSE [token |-> tm.token,
                   timers |-> RemoveAt(tm.timers, i),
                   last |-> [res |-> "failed", token |-> "", ttl |-> 0]]
    /\ UNCHANGED <<getters, besideToken>>

NextToken ==
    \/ \E g \in 1..MaxGetters : TK_GetToken(g)
    \/ \E g \in 1..MaxGetters, st \in Statuses, rd \in BOOLEAN : TK_Challenge(g, st, rd)
    \/ \E g \in 1..MaxGetters, r \in TokenResponses : TK_Token(g, r)
    \/ \E i \in 1..MaxTimers, r \in TokenResponses : TK_Refresh(i, r)

SpecToken == InitToken /\ [][NextToken]_vars

-----------------------------------------------------------------------------
(* Claims about the token broker *)

\* C20: a call of fetchToken that ends has stored a token and scheduled a
\* refresh, one and only one, exactly when it returns without error, and it
\* returns without error only after a 200 to the challenge request and a 201
\* to the token request; when either request fails or has another status,
\* the call returns an error and leaves the token held and the refreshes
\* scheduled as they were.
C20_FetchStoresOnlyOnSuccess ==
    [][\A g \in 1..MaxGetters :
          (getters[g].pc \in {"challenge", "token"} /\ getters'[g].pc = "done") =>
              /\ (getters'[g].challenge # 200
                    \/ (getters[g].pc = "token" /\ getters'[g].answer # 201)) =>
                     getters'[g].err
              /\ IF getters'[g].err
                 THEN tm' = tm
                 ELSE /\ getters'[g].challenge = 200
                      /\ getters'[g].answer = 201
                      /\ tm'.token = getters'[g].ret
                      /\ Len(tm'.timers) = Len(tm.timers) + 1]_vars

C20_TokenFetchedAndRefreshScheduled ==
    \E g \in 1..MaxGetters :
        /\ getters[g].pc = "done"
        /\ getters[g].answer = 201
        /\ ~getters[g].err
        /\ getters[g].ret = "t1"
        /\ tm = [NoToken EXCEPT !.token = "t1", !.timers = <<Timer(500)>>]

\* C21: a refresh scheduled after a token response with a ttl of ttl seconds
\* fires after max(ttl / 2, 600) seconds, the halving being the integer one:
\* every sleeping refresh goroutine sleeps that many seconds, 600 of them
\* for a ttl of 500.
C21_RefreshAfterHalfTtlOrTenMinutes ==
    \A i \in 1..Len(tm.timers) :
        tm.timers[i].delay =
            (IF tm.timers[i].ttl \div 2 > MinRefresh
             THEN tm.timers[i].ttl \div 2 ELSE MinRefresh) * Second

\* C22: a refresh that succeeds (status 201, decodable body) replaces the
\* token held by the token of the response and schedules one next refresh,
\* and only one, whose delay is computed from the ttl of the response: the
\* goroutine that refreshed is gone, the other sleeping ones are as they
\* were, and there is one more with the new ttl, so that another refresh can
\* follow.
C22_RefreshReplacesAndReschedules ==
    [][(getters' = getters /\ tm' # tm /\ tm'.last.res = "ok") =>
          /\ tm'.token = tm'.last.token
          /\ Len(tm'.timers) = Len(tm.timers)
          /\ \E i \in 1..Len(tm.timers), j \in 1..Len(tm'.timers) :
                 /\ RemoveAt(tm'.timers, j) = RemoveAt(tm.timers, i)
                 /\ tm'.timers[j].ttl = tm'.last.ttl
                 /\ tm'.timers[j].delay = RefreshDelay(tm'.last.ttl)]_vars

C22_TokenReplacedByRefresh ==
    /\ \E g \in 1..MaxGetters : getters[g].pc = "done" /\ getters[g].ret = "t1"
    /\ tm.last = [res |-> "ok", token |-> "t2", ttl |-> 500]
    /\ tm.token = "t2"
    /\ tm.timers = <<Timer(500)>>

\* C23: once a refresh has failed (no response, a status other than 201 or
\* an undecodable body), every later step leaves the token held as it is,
\* schedules no refresh (none by a later refresh that succeeds, none by a
\* fetch), starts no challenge/token exchange and leaves the error counts of
\* the Fault Governor alone, and every call of GetToken that returns then
\* returns the token held, without error.
C23_FailedRefreshEndsRefreshing ==
    [][tm.last.res = "failed" =>
          /\ tm'.token = tm.token
          /\ tm'.last.res = "failed"
          /\ Len(tm'.timers) <= Len(tm.timers)
          /\ \A g \in 1..MaxGetters :
                 /\ getters'[g].pc = "challenge" => getters[g].pc = "challenge"
                 /\ (getters'[g] # getters[g] /\ getters'[g].pc = "done") =>
                        (~getters'[g].err /\ getters'[g].ret = tm.token)
          /\ faults' = faults
          /\ errorCount' = errorCount]_vars

\* C24: a call of GetToken that finds a token held returns that token, with
\* no error and without a request to the authority, and a call starts the
\* challenge/token exchange only when it finds no token held (the empty
\* string).
C24_GetTokenFetchesOnlyWithoutToken ==
    [][\A g \in 1..MaxGetters :
          (getters[g].pc \in {"idle", "done"} /\ getters'[g] # getters[g]) =>
              /\ tm.token # "" =>
                     /\ getters'[g].pc = "done"
                     /\ getters'[g].ret = tm.token
                     /\ ~getters'[g].err
                     /\ getters'[g].reqs = 0
                     /\ tm' = tm
              /\ tm.token = "" =>
                     /\ getters'[g].pc = "challenge"
                     /\ getters'[g].reqs = 0]_vars

C24_HeldTokenReturnedWithoutRequest ==
    \E g, h \in 1..MaxGetters :
        /\ getters[h].pc = "done" /\ getters[h].reqs = 2 /\ getters[h].ret = "t2"
        /\ getters[g].pc = "done" /\ getters[g].reqs = 0 /\ getters[g].ret = "t2"
        /\ tm.token = "t2"

-----------------------------------------------------------------------------
(* Claims about Put and Get of the local store *)

\* C25: on a local backend, when Put(hash, bytes) has returned without error,
\* Get(hash) returns without error a reader of exactly these bytes, and it
\* goes on doing so as long as no Put and no deletion (Delete, or a sweep of
\* GC) of that hash happens: every other step leaves what Get(hash) answers
\* as it was.
C25_PutThenGetYieldsTheBytes ==
    [][IsLocal(backend) =>
          /\ (op'.name = "Put" /\ ~op'.err) =>
                 Get(backend, files', op'.hash, "ok") =
                     [NoReader EXCEPT !.type = "os.File", !.data = <<op'.data>>]
          /\ (files' # files /\ gc.pc # "sweep") =>
                 \A h \in Hashes \ {op'.hash} :
                     Get(backend, files', h, "ok") = Get(backend, files, h, "ok")]_vars

C25_StoredBytesReadBack ==
    /\ IsLocal(backend)
    /\ op = [name |-> "GetMissingFiles", cands |-> <<HashOf(2)>>, missing |-> <<HashOf(2)>>,
             afterPuts |-> <<>>]
    /\ Get(backend, files, HashOf(1), "ok").data = <<1>>
    /\ ~Exists(files, HashOf(2))

\* the paths of the store that lie in the shard directory of hash
InShardOf(fsys, hash) ==
    {p \in DOMAIN fsys : Len(p) >= ShardLen /\ SliceTo(p, ShardLen) = SliceTo(hash, ShardLen)}

-----------------------------------------------------------------------------
(* The remote backends: the client calls of WebDAVStorage, and Cluster.Init *)
(* on an AListStorage                                                       *)

\* the calls WebDAVStorage makes on its client, by the method that makes them
DavCalls ==
    {"Init.Connect", "Init.MkdirAll", "Check.ReadDir", "Put.MkdirAll", "Put.Write",
     "Delete.Remove", "Exists.Stat", "WriteFile.MkdirAll", "WriteFile.Write",
     "walkDir.ReadDir"}

\* the calls that are made through retryOnLock; Check and walkDir call
\* w.client.ReadDir themselves
ThroughRetryOnLock(call) == call \notin {"Check.ReadDir", "walkDir.ReadDir"}

\* retryOnLock, one pass of its loop for i := 0; i < maxRetries; i++.  The
\* server answers an attempt with success ("ok"), with an error whose text
\* has "423" or "Locked" in it ("locked"), or with another error ("error").
retryOnLock(d, resp) ==
    LET tried == [d EXCEPT !.attempts = @ + 1, !.last = resp] IN
    IF resp = "ok" THEN [tried EXCEPT !.pc = "done", !.ret = "ok"]
    ELSE IF resp = "locked" /\ d.i < LockRetries - 1 THEN [tried EXCEPT !.pc = "sleep"]
    ELSE [tried EXCEPT !.pc = "done", !.ret = resp]

InitRemote ==
    /\ backend \in {"WebDAVStorage", "AListStorage"}
    /\ files = <<>>
    /\ op = NoOp
    /\ gc = GCIdle
    /\ SyncIdle
    /\ ServerIdle
    /\ GovernorIdle
    /\ TokenIdle
    /\ dav = NoDav
    /\ al \in {[NoInit EXCEPT !.cfg = tok, !.token = tok] : tok \in {"", "preset"}}

\* what the calls of the remote backends leave alone
besideRemote == <<backend, files, op, gc, impl, maxConcurrency, served, errorCount, sf,
                  listed, missing, dl, tasks, hist, serverOnly, governorOnly, tokenVars>>

\* a method of WebDAVStorage comes to one of its client calls
DAV_Call(c) ==
    /\ backend = "WebDAVStorage"
    /\ dav.pc \in {"idle", "done"}
    /\ dav' = [NoDav EXCEPT !.call = c, !.pc = "try"]
    /\ UNCHANGED <<al, proc, faults, besideRemote>>

\* one attempt of the call and the answer to it.  Check returns the error
\* of its ReadDir; walkDir ignores it and returns nil with nothing listed.
DAV_Attempt(resp) ==
    /\ dav.pc = "try"
    /\ dav' = IF ThroughRetryOnLock(dav.call) THEN retryOnLock(dav, resp)
              ELSE [dav EXCEPT !.attempts = @ + 1, !.last = resp, !.pc = "done",
                               !.ret = IF resp = "ok" THEN "ok"
                                       ELSE IF dav.call = "walkDir.ReadDir"
                                            THEN "ignored" ELSE resp]
    /\ UNCHANGED <<al, proc, faults, besideRemote>>

\* retryOnLock: time.Sleep(1 * time.Minute) is over; continue
DAV_Wake ==
    /\ dav.pc = "sleep"
    /\ dav' = [dav EXCEPT !.pc = "try", !.i = @ + 1]
    /\ UNCHANGED <<al, proc, faults, besideRemote>>

\* the answers to the login request: none, a status that is not 200, an
\* unreadable or undecodable body, a code that is not 200, or a token
LoginResponses ==
    {[status |-> 0, readable |-> FALSE, code |-> 0, token |-> ""],
     [status |-> 401, readable |-> TRUE, code |-> 401, token |-> ""],
     [status |-> 200, readable |-> FALSE, code |-> 0, token |-> ""],
     [status |-> 200, readable |-> TRUE, code |-> 403, token |-> ""],
     [status |-> 200, readable |-> TRUE, code |-> 200, token |-> ""],
     [status |-> 200, readable |-> TRUE, code |-> 200, token |-> "al1"]}

\* login returns nil
LoginOk(r) == r.status = 200 /\ r.readable /\ r.code = 200

\* an Init that never logs in
NeverLogin(token) == FALSE

\* AListStorage.Init: if a.token == ""
NeedsLogin(token) == token = ""

\* Cluster.Init returns an error after c.errorMgr.RecordError, and main
\* ends the process: appLogger.Fatal
InitFails(a) ==
    /\ al' = [a EXCEPT !.pc = "failed", !.err = TRUE]
    /\ faults' = RecordError(faults)
    /\ proc' = "exited"

\* main: appCluster.Init(), which calls c.Storage.Init()
AL_Init ==
    /\ backend = "AListStorage"
    /\ proc = "running"
    /\ al.pc = "idle"
    /\ al' = [al EXCEPT !.pc = IF NeedsLogin(al.token) THEN "login" ELSE "mkdir"]
    /\ UNCHANGED <<dav, proc, faults, besideRemote>>

\* AListStorage.login: POST /api/auth/login
AL_Login(r) ==
    /\ al.pc = "login"
    /\ LET sent == [al EXCEPT !.sent = Append(@, "login")] IN
        IF LoginOk(r)
        THEN /\ al' = [sent EXCEPT !.pc = "mkdir", !.token = r.token, !.login = "ok"]
             /\ UNCHANGED <<proc, faults>>
        ELSE InitFails([sent EXCEPT !.login = "failed"])
    /\ UNCHANGED <<dav, besideRemote>>

\* AListStorage.makeDir(a.path): POST /api/fs/mkdir; it returns nil for 200,
\* and for 409, a directory that exists (status 0: no response)
AL_MakeDir(status) ==
    /\ al.pc = "mkdir"
    /\ LET sent == [al EXCEPT !.sent = Append(@, "mkdir")] IN
        IF status \in {200, 409}
        THEN /\ al' = [sent EXCEPT !.pc = "check"]
             /\ UNCHANGED <<proc, faults>>
        ELSE InitFails(sent)
    /\ UNCHANGED <<dav, besideRemote>>

\* Cluster.Init: c.Storage.Check(), which lists the base directory (GET
\* /api/fs/list), then c.errorMgr.ResetErrors()
AL_Check(listed_ok) ==
    /\ al.pc = "check"
    /\ LET sent == [al EXCEPT !.sent = Append(@, "list")] IN
        IF listed_ok
        THEN /\ al' = [sent EXCEPT !.pc = "ready"]
             /\ faults' = ResetErrors(faults)
             /\ proc' = proc
        ELSE InitFails(sent)
    /\ UNCHANGED <<dav, besideRemote>>

NextRemote ==
    \/ \E c \in DavCalls : DAV_Call(c)
    \/ \E resp \in {"ok", "locked", "error"} : DAV_Attempt(resp)
    \/ DAV_Wake
    \/ AL_Init
    \/ \E r \in LoginResponses : AL_Login(r)
    \/ \E status \in {0, 200, 409, 500} : AL_MakeDir(status)
    \/ \E ok \in BOOLEAN : AL_Check(ok)

SpecRemote == InitRemote /\ [][NextRemote]_vars

-----------------------------------------------------------------------------
(* Claims about the remote backends *)

\* C27: every client call of the WebDAV backend, those of Check and of the
\* directory listing included, is attempted at most 5 times; an attempt
\* that succeeds ends the call with success, an attempt that fails with an
\* error other than 'locked' ends it with that error, and an attempt
\* answered 'locked' (423) is followed by the cooldown and another attempt
\* unless it was the 5th, after which the call ends with the lock error.
C27_LockedCallsRetriedUpToFiveTimes ==
    [][(dav.pc = "try" /\ dav' # dav) =>
          /\ dav'.attempts <= LockRetries
          /\ dav'.last = "ok" => (dav'.pc = "done" /\ dav'.ret = "ok")
          /\ dav'.last = "error" => (dav'.pc = "done" /\ dav'.ret = "error")
          /\ dav'.last = "locked" =>
                 IF dav'.attempts < LockRetries THEN dav'.pc = "sleep"
                 ELSE dav'.pc = "done" /\ dav'.ret = "locked"]_vars

\* C28: Init of the AList backend sends the login request before any call
\* of the file system when no token was configured, and sends no login
\* request when one was; when the login fails, Init returns the error, no
\* call of the file system has been made, and main ends the process.
C28_LoginBeforeFilesystemCalls ==
    /\ (al.cfg = "" /\ al.sent # <<>>) =>
           (al.sent[1] = "login" /\ \A i \in 2..Len(al.sent) : al.sent[i] # "login")
    /\ al.cfg # "" => \A i \in 1..Len(al.sent) : al.sent[i] # "login"
    /\ al.login = "failed" =>
           (al.pc = "failed" /\ al.err /\ al.sent = <<"login">> /\ proc = "exited")

C28_LoggedInThenInitialized ==
    /\ al.cfg = ""
    /\ al.token = "al1"
    /\ al.pc = "ready"
    /\ al.sent = <<"login", "mkdir", "list">>
    /\ proc = "running"

-----------------------------------------------------------------------------
(* Further claims about the reconciliation engine *)

\* C29: when SyncFiles has returned nil for a manifest that is not empty,
\* every hash of the manifest is in the store (Exists answers true), and
\* every download task of the pass has ended: none is waiting, downloading
\* or about to write.
C29_SuccessMeansStoredAndQuiet ==
    (sf.pc = "returned" /\ sf.ret = "nil" /\ listed # <<>>) =>
        /\ \A i \in 1..Len(listed) : Exists(files, listed[i])
        /\ \A t \in PassTasks : tasks[t].pc = "done"

\* C30: within a pass of SyncFiles, GetMissingFiles is called only when the
\* manifest of the pass has been fetched, and a download is attempted only
\* for a file GetMissingFiles of the pass has reported; and no request, for
\* the manifest or for a file, is sent when GetToken has returned an error.
C30_FetchThenDiffThenDownload ==
    [][/\ (hist'.getMissing /\ ~hist.getMissing) =>
              (sf.pc = "getMissing" /\ listed = served /\ listed # <<>>)
       /\ \A t \in 1..MaxFiles :
              tasks'[t].attempt > tasks[t].attempt =>
                  /\ hist.getMissing
                  /\ t \in PassTasks
                  /\ missing[t] \in Range(listed)
       /\ ~hist'.bare]_vars

C30_DownloadedAfterDiff ==
    /\ sf.pc = "download"
    /\ hist.getMissing
    /\ hist.requested
    /\ Len(missing) = 2
    /\ tasks[1].res = "ok"
    /\ tasks[2].pc = "recorded"

-----------------------------------------------------------------------------
(* Mutual exclusion of the fault counter *)

\* C31: the methods of an ErrorRetryManager run under mutual exclusion: at
\* most one call is inside RecordError or ResetErrors at a time, so that
\* every RecordError raises the count by exactly one (no update is lost)
\* and tests the threshold against the count its own increment produced.
C31_CounterUnderMutualExclusion ==
    /\ [](\A c, d \in 1..MaxCallers :
             (callers[c].pc # "idle" /\ callers[d].pc # "idle") => c = d)
    /\ [][\A c \in 1..MaxCallers :
             (callers[c].pc = "store" /\ callers'[c].pc = "test") =>
                 errorCount' = errorCount + 1]_vars
    /\ [][\A c \in 1..MaxCallers :
             (callers[c].pc = "test" /\ callers'[c].pc # "test") =>
                 \A d \in 1..MaxCallers \ {c} : callers[d].pc \notin {"store", "test"}]_vars

-----------------------------------------------------------------------------
(* Exclusive fetching of the token *)

\* C32: fetching the token is exclusive: at most one call of GetToken is
\* inside the challenge/token exchange at a time, and at most one refresh
\* is pending at any time (one chain of refreshes).
C32_OneExchangeOneRefreshChain ==
    /\ \A g, h \in 1..MaxGetters :
           (getters[g].pc \in {"challenge", "token"} /\
            getters[h].pc \in {"challenge", "token"}) => g = h
    /\ Len(tm.timers) <= 1

-----------------------------------------------------------------------------
(* Further claims about the store *)

\* C33: a Put that returns an error leaves the store reporting what it
\* reported before: Exists answers for every hash as before the Put, and
\* GetMissingFiles answers for every list of candidates as before the Put.
C33_FailedPutLeavesHashAbsent ==
    [][(gc.pc # "sweep" /\ op'.name = "Put" /\ op'.err /\ files' # files) =>
          /\ \A h \in Hashes : Exists(files', h) = Exists(files, h)
          /\ \A c \in CandidateLists :
                 GetMissingFiles(backend, files', c) = GetMissingFiles(backend, files, c)]_vars


\* C34: a reader never gets a truncated object: a download request, which
\* reads the object with Get(hash), is answered as absent (404) or with the
\* complete bytes of a Put that has ended, also while the file of the
\* object is being written by a Put.
C34_NoPartialObjectServed ==
    (reply.gets = 1 /\ reply.status = 200) => reply.body # <<Partial>>

\* C35: on every backend that has ListFiles, ListFiles reports exactly the
\* hashes of the objects the store holds: the object put at shard(hash)/hash
\* and not deleted since is listed under the hash given to Put, and nothing
\* else is listed.
C35_ListFilesReportsTheStoredHashes ==
    backend # "FileStorage" => ListFiles(backend, files) = StoredIn(files)

-----------------------------------------------------------------------------
(* Further claims about the token broker *)

\* C36: every refresh is scheduled before the token expires: the delay
\* scheduleRefresh sleeps for a ttl greater than zero is shorter than the
\* ttl.
C36_RefreshBeforeExpiry ==
    \A i \in 1..Len(tm.timers) :
        tm.timers[i].ttl > 0 => tm.timers[i].delay < tm.timers[i].ttl * Second

-----------------------------------------------------------------------------
(* Further claims about the passes of SyncFiles *)

\* C37: a file that a pass of SyncFiles has downloaded and stored whole is
\* not downloaded again by a later pass: a download that succeeds is the
\* download of a hash the store did not hold whole.
C37_StoredFileNotDownloadedAgain ==
    [][\A t \in 1..MaxFiles :
          (tasks'[t].attempt > tasks[t].attempt /\ tasks'[t].res = "ok") =>
              ~(Exists(files, missing[t]) /\ files[PathOf(missing[t])] # Partial)]_vars


\* C38: a reconciliation that has used up its passes does not stop the
\* node: SyncFiles returns the error to its caller, the error is recorded in
\* the Cluster's ErrorRetryManager, and the process goes on running (main
\* logs the error and starts the HTTP server).
C38_FailedSyncDoesNotStopTheNode ==
    [][(sf.pc = "giveUp" /\ proc = "running") =>
          /\ proc' = "running"
          /\ sf' = Return(sf, "err")
          /\ faults' = RecordError(faults)]_vars

====
